---- MODULE Spec2Model ----
(***************************************************************************)
(* USB Audio Class 1.0 speaker core (usbd_audio.c): the ring buffer, the   *)
(* explicit-feedback controller, the SET_INTERFACE state machine and the   *)
(* isochronous event handlers, as a state machine whose actions are the    *)
(* class callbacks the USB device stack invokes.                            *)
(***************************************************************************)
EXTENDS Integers, Sequences, FiniteSets, TLC

(***************************************************************************)
(* Sizes.  The header that fixes AUDIO_OUT_PACKET and AUDIO_TOTAL_BUF_SIZE *)
(* is not part of the sources; the ring is modelled as PacketsPerRing      *)
(* packets of FramesPerPacket stereo 16-bit frames (4 bytes each).  The    *)
(* reference configuration is 48 frames x 10 packets = 1920 bytes.         *)
(***************************************************************************)
FramesPerPacket == 2
PacketsPerRing == 3
AUDIO_OUT_PACKET == 4 * FramesPerPacket
AUDIO_TOTAL_BUF_SIZE == AUDIO_OUT_PACKET * PacketsPerRing
TOTAL == AUDIO_TOTAL_BUF_SIZE

\* Largest frame number the model lets the USB core latch in DSTS.FNSOF.
MaxFrame == 2
\* How far above AUDIO_OUT_PACKET a reported receive size may lie, in frames.
MaxOversizeFrames == 1

USBD_AUDIO_FREQ == 48000
USBD_MAX_NUM_INTERFACES == 1
AUDIO_OUT_EP == 1
AUDIO_IN_EP == 129
AUDIO_OUT_STREAMING_CTRL == 2
AUDIO_REQ_SET_CUR == 1
AUDIO_DESCRIPTOR_TYPE == 33
USB_AUDIO_DESC_SIZ == 9
\* 2^16: the width of wr_ptr, rd_ptr, PacketSize and of the NDTR mask 0xFFFF.
U16 == 65536

Pow2(n) == 2 ^ n

\* AUDIO_FB_DEFAULT: nominal feedback, 10.14 shifted left by 8.
AUDIO_FB_DEFAULT ==
    IF USBD_AUDIO_FREQ = 96000 THEN 96 * Pow2(22)
    ELSE IF USBD_AUDIO_FREQ = 48000 THEN 48 * Pow2(22)
    ELSE IF USBD_AUDIO_FREQ = 44100 THEN 44 * Pow2(22) + Pow2(22) \div 10
    ELSE 48 * Pow2(22)

\* AUDIO_FB_DELTA: the feedback is limited to +/- 1 kHz.
AUDIO_FB_DELTA == Pow2(22)

fb_nom == AUDIO_FB_DEFAULT

VARIABLES
    \* process-wide flags and feedback state
    tx_flag, is_playing, all_ready, fnsof, fb_value, fb_data,
    \* pdev->pClassData and the fields of USBD_AUDIO_HandleTypeDef
    handle, alt_setting, offset, rd_enable, rd_ptr, wr_ptr, buffer, control,
    \* DataOut's static staging buffer
    tmpbuf,
    \* hardware: DMA1_Stream4 NDTR, DSTS.FNSOF, the armed OUT receive
    NDTR, FNSOF, rx,
    \* observation: the last callback with the calls it made, whether a
    \* feedback transfer is in flight on AUDIO_IN_EP, whether the playback
    \* engine was started and not de-initialised since
    ev, fb_pending, start_open

vars == <<tx_flag, is_playing, all_ready, fnsof, fb_value, fb_data,
          handle, alt_setting, offset, rd_enable, rd_ptr, wr_ptr, buffer,
          control, tmpbuf, NDTR, FNSOF, rx, ev, fb_pending, start_open>>

globals == <<tx_flag, is_playing, all_ready, fnsof, fb_value, fb_data>>
hfields == <<alt_setting, offset, rd_enable, rd_ptr, wr_ptr, buffer, control>>
hardware == <<NDTR, FNSOF, rx>>

RingIdx == 0 .. (TOTAL - 1)
ZeroRing == [i \in RingIdx |-> 0]
TmpIdx == 0 .. (AUDIO_OUT_PACKET - 1)
ZeroTmp == [i \in TmpIdx |-> 0]
ZeroControl == [cmd |-> 0, len |-> 0, unit |-> 0, data0 |-> 0]
NoRx == [tgt |-> "none", off |-> 0]

\* One call into the USB stack or the playback engine, with its argument.
Call(f, a) == [f |-> f, a |-> a]
\* The record of a callback: its name, its return value, the calls it made
\* in order, and the accesses it made outside a live object.
Event(op, ret, calls, bad) == [op |-> op, ret |-> ret, calls |-> calls, bad |-> bad]
Count(e, f) == Cardinality({i \in DOMAIN e.calls : e.calls[i].f = f})
Called(e, f) == Count(e, f) > 0
Min(a, b) == IF a < b THEN a ELSE b

\* fb_data[3] = bytes 1, 2, 3 of the 32-bit feedback word.
FbBytes(v) == << (v \div 256) % 256, (v \div 65536) % 256, (v \div 16777216) % 256 >>

(***************************************************************************)
(* Pure parts of the handlers.                                             *)
(***************************************************************************)

\* A size test that cuts a large packet down to AUDIO_OUT_PACKET bytes.
PacketSizeOf_clipped(rxsize) ==
    LET ps == rxsize % U16
    IN IF ps > AUDIO_OUT_PACKET THEN AUDIO_OUT_PACKET ELSE ps

\* DataOut: "Ignore strangely large packets" on the uint16_t PacketSize.
PacketSizeOf(rxsize) ==
    LET ps == rxsize % U16
    IN IF ps > AUDIO_OUT_PACKET THEN 0 ELSE ps

\* A wrap test that lets wr_ptr rest on AUDIO_TOTAL_BUF_SIZE.
WrapWr_late(w) == IF w > AUDIO_TOTAL_BUF_SIZE THEN 0 ELSE w

\* DataOut: the wrap test that follows the four wr_ptr++ of one sample.
WrapWr(w) == IF w >= AUDIO_TOTAL_BUF_SIZE THEN 0 ELSE w

\* buffer[i] = v; a store whose index lies outside the ring leaves it alone.
Put(b, i, v) == IF i \in RingIdx THEN [b EXCEPT ![i] = v] ELSE b

\* DataOut: the copy loop, n samples of 4 bytes from tmp[tp..] to buf[wr..].
RECURSIVE IngestLoop(_, _, _, _, _, _)
IngestLoop(buf, wr, tmp, tp, n, oob) ==
    IF n = 0 THEN [buf |-> buf, wr |-> wr, oob |-> oob]
    ELSE LET b1 == Put(buf, wr, tmp[tp])
             b2 == Put(b1, (wr + 1) % U16, tmp[tp + 1])
             b3 == Put(b2, (wr + 2) % U16, tmp[tp + 2])
             b4 == Put(b3, (wr + 3) % U16, tmp[tp + 3])
         IN IngestLoop(b4, WrapWr((wr + 4) % U16), tmp, tp + 4, n - 1,
                       oob \/ wr + 3 >= AUDIO_TOTAL_BUF_SIZE)

\* DataOut: the whole ingest of one reported receive size.
Ingest(buf, wr, tmp, rxsize) ==
    IngestLoop(buf, wr, tmp, 0, PacketSizeOf(rxsize) \div 4, FALSE)

\* A start test that does not wait for the half-full mark.
StartDue_anyfill(off, playing, wr) ==
    off = "UNKNOWN" /\ playing = 0

\* A start test that fires only with wr_ptr on the half-full mark itself.
StartDue_exact(off, playing, wr) ==
    off = "UNKNOWN" /\ playing = 0 /\ wr = AUDIO_TOTAL_BUF_SIZE \div 2

\* DataOut: the playback-start test made after the ingest.
StartDue(off, playing, wr) ==
    off = "UNKNOWN" /\ playing = 0 /\ wr >= AUDIO_TOTAL_BUF_SIZE \div 2

\* SOF: rd_ptr = AUDIO_TOTAL_BUF_SIZE - (NDTR & 0xFFFF), stored in 16 bits.
ReadPtrOf(ndtr) == (AUDIO_TOTAL_BUF_SIZE - (ndtr % U16)) % U16

\* SOF: remaining writable buffer size, in samples.
WritableSize(rd, wr) ==
    IF rd < wr THEN (rd + AUDIO_TOTAL_BUF_SIZE - wr) \div 4
    ELSE (rd - wr) \div 4

\* The product kept in 32 bits before the shift: what is left of pid_k >> 22
\* when the operands are not widened to 64 bits.
MulShr22_32bit(a, t) ==
    LET ah == a \div Pow2(22)
        al == a % Pow2(22)
        b1 == al \div 2048
        b0 == al % 2048
        t1 == t \div 2048
        t0 == t % 2048
        m  == b1 * t0 + b0 * t1
        l  == b0 * t0
    IN (ah * t + b1 * t1 + (m + l \div 2048) \div 2048) % Pow2(10)

\* floor(a * t / 2^22) for 0 <= a < 2^31 and 0 <= t < 2^24, computed in
\* 11-bit limbs so that no intermediate value leaves 31 bits; it is the
\* 64-bit product pid_k shifted right by 22.
MulShr22(a, t) ==
    LET ah == a \div Pow2(22)
        al == a % Pow2(22)
        b1 == al \div 2048
        b0 == al % 2048
        t1 == t \div 2048
        t0 == t % 2048
        m  == b1 * t0 + b0 * t1
        l  == b0 * t0
    IN ah * t + b1 * t1 + (m + l \div 2048) \div 2048

\* SOF: the proportional factor (1<<22) + dev*256, an int32.
PidFactor(w) == Pow2(22) + (w - AUDIO_TOTAL_BUF_SIZE \div (2 * 6)) * 256

\* SOF: fb_value before the limit check.  The factor is positive for every
\* ring shorter than 2^16 bytes, so the cast to uint64_t adds nothing.
FbRaw(w) ==
    CASE PidFactor(w) >= 0 -> MulShr22(fb_nom, PidFactor(w))

\* No limit check.
ClampFb_none(v) == v

\* SOF: "Check feedback max / min".
ClampFb(v) ==
    IF v > fb_nom + AUDIO_FB_DELTA THEN fb_nom + AUDIO_FB_DELTA
    ELSE IF v < fb_nom - AUDIO_FB_DELTA THEN fb_nom - AUDIO_FB_DELTA
    ELSE v

\* SOF: the feedback value for a read and a write offset.
FbOf(rd, wr) == ClampFb(FbRaw(WritableSize(rd, wr)))

\* A gate that does not look at tx_flag.
TxGate_open(flag) == TRUE

\* SOF: "Transmit feedback only when the last one is transmitted".
TxGate(flag) == flag = 0

\* No parity guard, and the guard with its sense inverted.
ParityOk_always(saved, fnsof_new) == TRUE
ParityOk_inverted(saved, fnsof_new) == (saved % 2) # (fnsof_new % 2)

\* SOF: the frame-parity guard of the feedback submit.
ParityOk(saved, fnsof_new) == (saved % 2) = (fnsof_new % 2)

\* (DSTS & USB_OTG_DSTS_FNSOF) >> 8: the 14-bit frame number field.
FnsofOf(frame) == frame % Pow2(14)

\* A SET_INTERFACE that never clears the ring.
RingAfterSetInterface_kept(alt, buf) == buf

\* SET_INTERFACE: the ring after the request; only alt 0 runs the memset.
RingAfterSetInterface(alt, buf) == IF alt = 0 THEN ZeroRing ELSE buf

(***************************************************************************)
(* The state after the program image is loaded: the initialisers of the    *)
(* globals, zeroed static memory, nothing armed.                           *)
(***************************************************************************)
Init ==
    /\ tx_flag = 1
    /\ is_playing = 0
    /\ all_ready = 0
    /\ fnsof = 0
    /\ fb_value = AUDIO_FB_DEFAULT
    /\ fb_data = FbBytes(AUDIO_FB_DEFAULT)
    /\ handle = FALSE
    /\ alt_setting = 0
    /\ offset = "UNKNOWN"
    /\ rd_enable = 0
    /\ rd_ptr = 0
    /\ wr_ptr = 0
    /\ buffer = ZeroRing
    /\ control = ZeroControl
    /\ tmpbuf = ZeroTmp
    /\ NDTR = 0
    /\ FNSOF = 0
    /\ rx = NoRx
    /\ ev = Event("boot", "OK", <<>>, {})
    /\ fb_pending = FALSE
    /\ start_open = FALSE

(***************************************************************************)
(* USBD_AUDIO_Init(pdev, cfgidx).  mallok: USBD_malloc returned a block;   *)
(* initok: the playback engine's Init returned 0.  The allocator hands out *)
(* static memory, so buffer and control keep what the block held.          *)
(* InitStatus is the value returned.                                       *)
(***************************************************************************)
\* An Init that does not look at what the playback engine's Init returned.
InitStatus_unchecked(mallok, initok) == IF ~mallok THEN "EMEM" ELSE "OK"

InitStatus(mallok, initok) ==
    IF ~mallok THEN "EMEM" ELSE IF ~initok THEN "FAIL" ELSE "OK"

USBD_AUDIO_Init(mallok, initok) ==
    /\ ~handle
    /\ IF InitStatus(mallok, initok) = "EMEM"
       THEN /\ ev' = Event("Init", "EMEM", <<>>, {})
            /\ UNCHANGED <<globals, handle, hfields, tmpbuf, hardware,
                           fb_pending, start_open>>
       ELSE /\ handle' = TRUE
            /\ tx_flag' = 1
            /\ alt_setting' = 0
            /\ offset' = "UNKNOWN"
            /\ wr_ptr' = 0
            /\ rd_ptr' = 0
            /\ rd_enable' = 0
            /\ fb_pending' = FALSE
            /\ rx' = IF InitStatus(mallok, initok) = "OK"
                     THEN [tgt |-> "buffer", off |-> 0] ELSE rx
            /\ ev' = Event("Init", InitStatus(mallok, initok),
                           <<Call("OpenEP", AUDIO_OUT_EP), Call("OpenEP", AUDIO_IN_EP),
                             Call("FlushEP", AUDIO_IN_EP), Call("Itf_Init", USBD_AUDIO_FREQ)>>
                           \o (IF InitStatus(mallok, initok) = "OK"
                               THEN <<Call("PrepareReceive_buffer", 0)>> ELSE <<>>),
                           {})
            /\ UNCHANGED <<is_playing, all_ready, fnsof, fb_value, fb_data,
                           buffer, control, tmpbuf, NDTR, FNSOF, start_open>>

(***************************************************************************)
(* USBD_AUDIO_DeInit(pdev, cfgidx).  The scalar fields of a freed handle   *)
(* are dead until the next Init stores to each of them; they are kept at   *)
(* their Init values while no handle exists.  buffer and control, which    *)
(* Init does not store to, keep their contents.                            *)
(***************************************************************************)
\* A DeInit that releases without testing pClassData.
HasClassData_unchecked(h) == TRUE

\* DeInit: pdev->pClassData != NULL.
HasClassData(h) == h

USBD_AUDIO_DeInit ==
    /\ tx_flag' = 0
    /\ handle' = FALSE
    /\ alt_setting' = 0
    /\ offset' = "UNKNOWN"
    /\ rd_enable' = 0
    /\ rd_ptr' = 0
    /\ wr_ptr' = 0
    /\ rx' = NoRx
    /\ fb_pending' = FALSE
    /\ start_open' = IF HasClassData(handle) THEN FALSE ELSE start_open
    /\ ev' = Event("DeInit", "OK",
                   <<Call("FlushEP", AUDIO_OUT_EP), Call("FlushEP", AUDIO_IN_EP),
                     Call("CloseEP", AUDIO_OUT_EP), Call("CloseEP", AUDIO_IN_EP)>>
                   \o (IF HasClassData(handle)
                       THEN <<Call("Itf_DeInit", 0), Call("free", 0)>> ELSE <<>>),
                   {})
    /\ UNCHANGED <<is_playing, all_ready, fnsof, fb_value, fb_data, buffer, control,
                   tmpbuf, NDTR, FNSOF>>

(***************************************************************************)
(* USBD_AUDIO_Setup(pdev, req).  req.type is bmRequest & USB_REQ_TYPE_MASK,*)
(* configured is pdev->dev_state == USBD_STATE_CONFIGURED.                 *)
(***************************************************************************)
SetupFail(name) ==
    /\ ev' = Event(name, "FAIL", <<Call("CtlError", 0)>>, {})
    /\ UNCHANGED <<globals, handle, hfields, tmpbuf, hardware, fb_pending, start_open>>

SetupQuiet(name, calls) ==
    /\ ev' = Event(name, "OK", calls, {})
    /\ UNCHANGED <<globals, handle, hfields, tmpbuf, hardware, fb_pending, start_open>>

\* The bytes of control.data: USBD_memset(haudio->control.data, 0, 64U).
ControlDataSize == 64

\* A data stage of len bytes on control.data: beyond ControlDataSize bytes it
\* runs past the array.
CtlBad(len) == IF len > ControlDataSize THEN {"ctl_oob"} ELSE {}

\* AUDIO_REQ_GetCurrent
AUDIO_REQ_GetCurrent(req) ==
    /\ control' = [control EXCEPT !.data0 = 0]
    /\ ev' = Event("Setup_GET_CUR", "OK", <<Call("CtlSendData", req.wLength)>>,
                   CtlBad(req.wLength))
    /\ UNCHANGED <<globals, handle, alt_setting, offset, rd_enable, rd_ptr, wr_ptr,
                   buffer, tmpbuf, hardware, fb_pending, start_open>>

\* AUDIO_REQ_SetCurrent
AUDIO_REQ_SetCurrent(req) ==
    IF req.wLength # 0
    THEN /\ control' = [control EXCEPT !.cmd = AUDIO_REQ_SET_CUR,
                                       !.len = req.wLength % 256,
                                       !.unit = (req.wIndex \div 256) % 256]
         /\ ev' = Event("Setup_SET_CUR", "OK", <<Call("CtlPrepareRx", req.wLength)>>,
                        CtlBad(req.wLength))
         /\ UNCHANGED <<globals, handle, alt_setting, offset, rd_enable, rd_ptr, wr_ptr,
                        buffer, tmpbuf, hardware, fb_pending, start_open>>
    ELSE SetupQuiet("Setup_SET_CUR", <<>>)

\* A mute test that does not look at the unit the request addressed.
MuteDue_anyunit(cmd, unit) == cmd = AUDIO_REQ_SET_CUR

\* EP0_RxReady: the test under which MuteCtl is called.
MuteDue(cmd, unit) == cmd = AUDIO_REQ_SET_CUR /\ unit = AUDIO_OUT_STREAMING_CTRL

\* The range test on the requested alternate setting, alt = (uint8_t)wValue.
AltInRange_any(alt) == TRUE
AltInRange(alt) == alt <= USBD_MAX_NUM_INTERFACES

\* The accepted USB_REQ_SET_INTERFACE, alt = (uint8_t)wValue.
SetInterface(alt) ==
    /\ alt_setting' = alt
    /\ buffer' = RingAfterSetInterface(alt, buffer)
    /\ all_ready' = IF alt = 0 THEN 0 ELSE 1
    /\ tx_flag' = IF alt = 0 THEN 1 ELSE 0
    /\ is_playing' = 0
    /\ offset' = "UNKNOWN"
    /\ rd_enable' = 0
    /\ rd_ptr' = 0
    /\ wr_ptr' = 0
    /\ fb_pending' = FALSE
    /\ start_open' = IF alt = 0 THEN FALSE ELSE start_open
    /\ ev' = Event("Setup_SET_INTERFACE", "OK",
                   <<Call("FlushEP", AUDIO_IN_EP), Call("FlushEP", AUDIO_OUT_EP),
                     IF alt = 0 THEN Call("Itf_DeInit", 0)
                     ELSE Call("Itf_Init", USBD_AUDIO_FREQ),
                     Call("FlushEP", AUDIO_IN_EP)>>, {})
    /\ UNCHANGED <<fnsof, fb_value, fb_data, handle, control, tmpbuf, hardware>>

USBD_AUDIO_Setup(req, configured) ==
    IF ~handle
    THEN /\ ev' = Event("Setup", "FAIL", <<>>, {})
         /\ UNCHANGED <<globals, handle, hfields, tmpbuf, hardware, fb_pending, start_open>>
    ELSE CASE req.type = "CLASS" ->
                CASE req.bRequest = "GET_CUR" -> AUDIO_REQ_GetCurrent(req)
                  [] req.bRequest = "SET_CUR" -> AUDIO_REQ_SetCurrent(req)
                  [] OTHER -> SetupFail("Setup_class")
           [] req.type = "STANDARD" ->
                CASE req.bRequest = "GET_STATUS" ->
                       IF configured
                       THEN SetupQuiet("Setup_GET_STATUS", <<Call("CtlSendData", 2)>>)
                       ELSE SetupFail("Setup_GET_STATUS")
                  [] req.bRequest = "GET_DESCRIPTOR" ->
                       IF req.wValue \div 256 = AUDIO_DESCRIPTOR_TYPE
                       THEN SetupQuiet("Setup_GET_DESCRIPTOR",
                                <<Call("CtlSendData", Min(USB_AUDIO_DESC_SIZ, req.wLength))>>)
                       ELSE SetupQuiet("Setup_GET_DESCRIPTOR", <<>>)
                  [] req.bRequest = "GET_INTERFACE" ->
                       IF configured
                       THEN SetupQuiet("Setup_GET_INTERFACE", <<Call("CtlSendData", 1)>>)
                       ELSE SetupFail("Setup_GET_INTERFACE")
                  [] req.bRequest = "SET_INTERFACE" ->
                       IF configured /\ AltInRange(req.wValue % 256)
                       THEN SetInterface(req.wValue % 256)
                       ELSE SetupFail("Setup_SET_INTERFACE")
                  [] req.bRequest = "CLEAR_FEATURE" ->
                       SetupQuiet("Setup_CLEAR_FEATURE", <<>>)
                  [] OTHER -> SetupFail("Setup_standard")
           [] OTHER -> SetupFail("Setup_type")

(***************************************************************************)
(* USBD_AUDIO_DataIn(pdev, epnum): a transfer on IN endpoint epnum is done.*)
(***************************************************************************)
\* A DataIn that does not look at the endpoint number.
IsFeedbackEp_any(epnum) == TRUE

\* DataIn: epnum == (AUDIO_IN_EP & 0xf).
IsFeedbackEp(epnum) == epnum = AUDIO_IN_EP % 16

USBD_AUDIO_DataIn(epnum) ==
    /\ tx_flag' = IF IsFeedbackEp(epnum) THEN 0 ELSE tx_flag
    /\ fb_pending' = IF IsFeedbackEp(epnum) THEN FALSE ELSE fb_pending
    /\ ev' = Event("DataIn", "OK", <<>>, {})
    /\ UNCHANGED <<is_playing, all_ready, fnsof, fb_value, fb_data, handle, hfields,
                   tmpbuf, hardware, start_open>>

(***************************************************************************)
(* USBD_AUDIO_EP0_RxReady(pdev).  d0 is the first byte the EP0 OUT data    *)
(* stage stored in control.data when a SET_CUR armed it.                   *)
(***************************************************************************)
USBD_AUDIO_EP0_RxReady(d0) ==
    IF ~handle
    THEN /\ ev' = Event("EP0_RxReady", "FAIL", <<>>, {})
         /\ UNCHANGED <<globals, handle, hfields, tmpbuf, hardware, fb_pending, start_open>>
    ELSE LET data0 == IF control.cmd = AUDIO_REQ_SET_CUR THEN d0 ELSE control.data0
             mute == MuteDue(control.cmd, control.unit)
         IN /\ control' = IF mute
                          THEN [control EXCEPT !.data0 = data0, !.cmd = 0, !.len = 0]
                          ELSE [control EXCEPT !.data0 = data0]
            /\ ev' = Event("EP0_RxReady", "OK",
                           IF mute THEN <<Call("MuteCtl", data0)>> ELSE <<>>, {})
            /\ UNCHANGED <<globals, handle, alt_setting, offset, rd_enable, rd_ptr, wr_ptr,
                           buffer, tmpbuf, hardware, fb_pending, start_open>>

(***************************************************************************)
(* USBD_AUDIO_SOF(pdev).  f is the frame number DSTS.FNSOF holds at this   *)
(* start of frame.  The handler does not test pClassData: with no handle,  *)
(* haudio->rd_enable, rd_ptr and wr_ptr are accesses through a null        *)
(* pointer, the loads yield the values g and the store is lost.  n is the  *)
(* value the DMA transfer counter presents when the handler reads it.      *)
(***************************************************************************)
USBD_AUDIO_SOF(f, n, g) ==
    LET en  == IF handle THEN rd_enable ELSE g.en
        run == en >= 1 /\ all_ready = 1
        rd  == IF handle THEN ReadPtrOf(n) ELSE g.rd
        wr  == IF handle THEN wr_ptr ELSE g.wr
        fb  == FbOf(rd, wr)
        tx  == run /\ TxGate(tx_flag) /\ ParityOk(fnsof, FnsofOf(f))
    IN /\ FNSOF' = f
       /\ NDTR' = n
       /\ rd_ptr' = IF run /\ handle THEN rd ELSE rd_ptr
       /\ fb_value' = IF run THEN fb ELSE fb_value
       /\ fb_data' = IF run THEN FbBytes(fb) ELSE fb_data
       /\ tx_flag' = IF tx THEN 1 ELSE tx_flag
       /\ fb_pending' = IF tx THEN TRUE ELSE fb_pending
       /\ ev' = Event("SOF", "OK",
                      IF tx THEN <<Call("Transmit", AUDIO_IN_EP)>> ELSE <<>>,
                      IF handle THEN {} ELSE {"null"})
       /\ UNCHANGED <<is_playing, all_ready, fnsof, handle, alt_setting, offset,
                      rd_enable, wr_ptr, buffer, control, tmpbuf, rx, start_open>>

(***************************************************************************)
(* USBD_AUDIO_IsoINIncomplete(pdev, epnum).                                *)
(***************************************************************************)
USBD_AUDIO_IsoINIncomplete ==
    /\ fnsof' = FnsofOf(FNSOF)
    /\ tx_flag' = 0
    /\ fb_pending' = IF tx_flag = 1 THEN FALSE ELSE fb_pending
    /\ ev' = Event("IsoINIncomplete", "OK",
                   IF tx_flag = 1 THEN <<Call("FlushEP", AUDIO_IN_EP)>> ELSE <<>>, {})
    /\ UNCHANGED <<is_playing, all_ready, fb_value, fb_data, handle, hfields, tmpbuf,
                   hardware, start_open>>

(***************************************************************************)
(* USBD_AUDIO_IsoOutIncomplete(pdev, epnum).  No test of pClassData: with  *)
(* no handle the receive is armed at an address computed from a null       *)
(* pointer.                                                                *)
(***************************************************************************)
\* A re-arm at the start of the ring instead of the write offset.
IsoOutTarget_start(wr) == [tgt |-> "buffer", off |-> 0]

\* IsoOutIncomplete: &haudio->buffer[haudio->wr_ptr].
IsoOutTarget(wr) == [tgt |-> "buffer", off |-> wr]

USBD_AUDIO_IsoOutIncomplete ==
    /\ rx' = IF handle THEN IsoOutTarget(wr_ptr)
             ELSE [tgt |-> "wild", off |-> 0]
    /\ ev' = Event("IsoOutIncomplete", "OK",
                   <<Call("FlushEP", AUDIO_OUT_EP),
                     Call(IF handle THEN "PrepareReceive_buffer" ELSE "PrepareReceive_wild",
                          IF handle THEN IsoOutTarget(wr_ptr).off ELSE 0)>>,
                   IF handle THEN {} ELSE {"null"})
    /\ UNCHANGED <<globals, handle, hfields, tmpbuf, NDTR, FNSOF, fb_pending, start_open>>

(***************************************************************************)
(* The USB core stores a completed OUT packet where the receive was armed: *)
(* size bytes of value d, at most the AUDIO_OUT_PACKET bytes armed.        *)
(***************************************************************************)
RxLen(size) == Min(size, AUDIO_OUT_PACKET)

RxIntoRing(buf, r, size, d) ==
    IF r.tgt = "buffer"
    THEN [i \in RingIdx |-> IF i >= r.off /\ i < r.off + RxLen(size) THEN d ELSE buf[i]]
    ELSE buf

RxIntoTmp(tmp, r, size, d) ==
    IF r.tgt = "tmpbuf"
    THEN [i \in TmpIdx |-> IF i < RxLen(size) THEN d ELSE tmp[i]]
    ELSE tmp

RxBad(r, size) ==
    (IF r.tgt = "buffer" /\ r.off + RxLen(size) > AUDIO_TOTAL_BUF_SIZE THEN {"rx_oob"} ELSE {})
    \cup (IF r.tgt = "wild" THEN {"rx_wild"} ELSE {})

(***************************************************************************)
(* USBD_AUDIO_DataOut(pdev, epnum): the packet of size bytes of value d    *)
(* has completed on OUT endpoint epnum; size is what                       *)
(* USBD_LL_GetRxDataSize reports.                                          *)
(***************************************************************************)
\* An ingest gate that does not look at all_ready.
IngestGate_noready(epnum, ready) == epnum = AUDIO_OUT_EP

\* DataOut: epnum == AUDIO_OUT_EP && all_ready == 1U.
IngestGate(epnum, ready) == epnum = AUDIO_OUT_EP /\ ready = 1

USBD_AUDIO_DataOut(epnum, size, d) ==
    LET hw   == epnum = AUDIO_OUT_EP /\ rx.tgt # "none"
        buf0 == IF hw THEN RxIntoRing(buffer, rx, size, d) ELSE buffer
        tmp0 == IF hw THEN RxIntoTmp(tmpbuf, rx, size, d) ELSE tmpbuf
        rx0  == IF hw THEN NoRx ELSE rx
        bad0 == IF hw THEN RxBad(rx, size) ELSE {}
        in   == Ingest(buf0, wr_ptr, tmp0, size)
        due  == StartDue(offset, is_playing, in.wr)
        go   == due /\ rd_enable = 0
    IN /\ tmpbuf' = tmp0
       /\ IF ~handle
          THEN /\ ev' = Event("DataOut", "FAIL", <<>>, bad0)
               /\ rx' = rx0
               /\ buffer' = buf0
               /\ UNCHANGED <<globals, handle, alt_setting, offset, rd_enable, rd_ptr,
                              wr_ptr, control, NDTR, FNSOF, fb_pending, start_open>>
          ELSE IF IngestGate(epnum, all_ready)
          THEN /\ buffer' = in.buf
               /\ wr_ptr' = in.wr
               /\ offset' = IF due THEN "NONE" ELSE offset
               /\ is_playing' = IF due THEN 1 ELSE is_playing
               /\ rd_enable' = IF go THEN 1 ELSE rd_enable
               /\ start_open' = IF go THEN TRUE ELSE start_open
               /\ rx' = [tgt |-> "tmpbuf", off |-> 0]
               /\ ev' = Event("DataOut", "OK",
                              (IF go THEN <<Call("AudioCmd_START", AUDIO_TOTAL_BUF_SIZE \div 2)>>
                               ELSE <<>>)
                              \o <<Call("PrepareReceive_tmpbuf", 0)>>,
                              bad0 \cup (IF in.oob THEN {"ring_oob"} ELSE {}))
               /\ UNCHANGED <<tx_flag, all_ready, fnsof, fb_value, fb_data, handle,
                              alt_setting, rd_ptr, control, NDTR, FNSOF, fb_pending>>
          ELSE /\ ev' = Event("DataOut", "OK", <<>>, bad0)
               /\ rx' = rx0
               /\ buffer' = buf0
               /\ UNCHANGED <<globals, handle, alt_setting, offset, rd_enable, rd_ptr,
                              wr_ptr, control, NDTR, FNSOF, fb_pending, start_open>>

(***************************************************************************)
(* The playback engine's DMA stream, running since AUDIO_CMD_START: its    *)
(* transfer counter presents n.                                            *)
(***************************************************************************)
DmaProgress(n) ==
    /\ start_open
    /\ NDTR # n
    /\ NDTR' = n
    /\ UNCHANGED <<globals, handle, hfields, tmpbuf, FNSOF, rx, ev, fb_pending, start_open>>

(***************************************************************************)
(* Inputs.                                                                 *)
(***************************************************************************)
Booleans == {TRUE, FALSE}
Frames == 0 .. MaxFrame
EpNums == {AUDIO_OUT_EP, AUDIO_OUT_EP + 1}
\* Completed OUT transfers: one of each size in S on the streaming endpoint,
\* and one on another endpoint, where the class reads no size.
Arrivals(S) == {<<AUDIO_OUT_EP, z>> : z \in S} \cup {<<AUDIO_OUT_EP + 1, 0>>}
\* Sample bytes: silence, and a byte that is not zero.
Silence == {0}
Sound == {1}
\* Reported receive sizes: nothing, half a frame, one frame, half a frame
\* short of a packet, a packet, whole frames beyond a packet, and the
\* largest 16-bit size.
RxSizes ==
    {0, 2, 4, AUDIO_OUT_PACKET - 2, AUDIO_OUT_PACKET, U16 - 1}
    \cup {AUDIO_OUT_PACKET + 4 * k : k \in 1 .. MaxOversizeFrames}
FrameSizes == {0, AUDIO_OUT_PACKET, AUDIO_OUT_PACKET + 4}
FullPackets == {0, AUDIO_OUT_PACKET}
PacketSizes == {4, AUDIO_OUT_PACKET}
\* Values of the DMA counter: inside the ring, 0, beyond the ring, 0xFFFF.
NdtrValues ==
    {AUDIO_OUT_PACKET * k : k \in 0 .. PacketsPerRing}
    \cup {4, AUDIO_TOTAL_BUF_SIZE + 4, U16 - 1}
NdtrInRing == {AUDIO_TOTAL_BUF_SIZE, AUDIO_TOTAL_BUF_SIZE \div 2}
Garbage == {[en |-> 0, rd |-> 0, wr |-> 0], [en |-> 1, rd |-> U16 - 4, wr |-> 0]}
Req(t, b, v, i, l) == [type |-> t, bRequest |-> b, wValue |-> v, wIndex |-> i, wLength |-> l]
SetInterfaceReqs == {Req("STANDARD", "SET_INTERFACE", v, 1, 0) : v \in {0, 1, 2, 256}}
\* Class requests to the feature unit and to another unit, with and without
\* a data stage, and the standard requests the class answers or refuses.
\* The feature unit is also asked for one byte more than control.data holds
\* and for the largest wLength.  SET_INTERFACE is addressed to the
\* AudioStreaming interface (wIndex 1) and to AudioControl (wIndex 0).
ControlReqs ==
    {Req("CLASS", b, 0, u * 256, l) : b \in {"GET_CUR", "SET_CUR"},
                                      u \in {AUDIO_OUT_STREAMING_CTRL, AUDIO_OUT_STREAMING_CTRL + 1},
                                      l \in {0, 1}}
    \cup {Req("CLASS", b, 0, AUDIO_OUT_STREAMING_CTRL * 256, l) :
             b \in {"GET_CUR", "SET_CUR"}, l \in {ControlDataSize + 1, U16 - 1}}
    \cup {Req("CLASS", "GET_MIN", 0, AUDIO_OUT_STREAMING_CTRL * 256, 1),
          Req("VENDOR", "GET_CUR", 0, 0, 0)}
    \cup {Req("STANDARD", b, 0, 1, 2) :
             b \in {"GET_STATUS", "GET_INTERFACE", "CLEAR_FEATURE", "SET_FEATURE"}}
    \cup {Req("STANDARD", "GET_DESCRIPTOR", v, 1, USB_AUDIO_DESC_SIZ + 1) :
             v \in {AUDIO_DESCRIPTOR_TYPE * 256, 0}}
    \cup {Req("STANDARD", "SET_INTERFACE", v, 1, 0) : v \in {0, 1, 2}}
    \cup {Req("STANDARD", "SET_INTERFACE", v, 0, 0) : v \in {0, 1}}

(***************************************************************************)
(* Spec: the ring offsets and the session.  The streaming callbacks with   *)
(* SET_INTERFACE, every receive size, silent packets, the DMA counter at   *)
(* the start of the ring.                                                  *)
(***************************************************************************)
Next ==
    \/ \E m \in Booleans, i \in Booleans : USBD_AUDIO_Init(m, i)
    \/ USBD_AUDIO_DeInit
    \/ \E r \in SetInterfaceReqs, c \in Booleans : USBD_AUDIO_Setup(r, c)
    \/ \E e \in EpNums : USBD_AUDIO_DataIn(e)
    \/ \E g \in Garbage : USBD_AUDIO_SOF(0, AUDIO_TOTAL_BUF_SIZE, g)
    \/ USBD_AUDIO_IsoINIncomplete
    \/ USBD_AUDIO_IsoOutIncomplete
    \/ \E a \in Arrivals(RxSizes), d \in Silence : USBD_AUDIO_DataOut(a[1], a[2], d)

Spec == Init /\ [][Next]_vars

(***************************************************************************)
(* SpecDma: producer against consumer.  The same callbacks; silent packets *)
(* of one frame or of AUDIO_OUT_PACKET bytes; the DMA counter moves on its *)
(* own between callbacks and each start of frame reads it where it stands. *)
(***************************************************************************)
NextDma ==
    \/ \E m \in Booleans, i \in Booleans : USBD_AUDIO_Init(m, i)
    \/ USBD_AUDIO_DeInit
    \/ \E r \in SetInterfaceReqs, c \in Booleans : USBD_AUDIO_Setup(r, c)
    \/ \E e \in EpNums : USBD_AUDIO_DataIn(e)
    \/ \E g \in Garbage : USBD_AUDIO_SOF(0, NDTR, g)
    \/ USBD_AUDIO_IsoINIncomplete
    \/ USBD_AUDIO_IsoOutIncomplete
    \/ \E a \in Arrivals(PacketSizes), d \in Silence : USBD_AUDIO_DataOut(a[1], a[2], d)
    \/ \E n \in NdtrInRing : DmaProgress(n)

SpecDma == Init /\ [][NextDma]_vars

(***************************************************************************)
(* SpecRing: the ring contents.  The same callbacks; packets of whole      *)
(* frames that carry sound.                                                *)
(***************************************************************************)
NextRing ==
    \/ \E m \in Booleans, i \in Booleans : USBD_AUDIO_Init(m, i)
    \/ USBD_AUDIO_DeInit
    \/ \E r \in SetInterfaceReqs, c \in Booleans : USBD_AUDIO_Setup(r, c)
    \/ \E e \in EpNums : USBD_AUDIO_DataIn(e)
    \/ \E g \in Garbage : USBD_AUDIO_SOF(0, AUDIO_TOTAL_BUF_SIZE, g)
    \/ USBD_AUDIO_IsoINIncomplete
    \/ USBD_AUDIO_IsoOutIncomplete
    \/ \E a \in Arrivals(FrameSizes), d \in Sound : USBD_AUDIO_DataOut(a[1], a[2], d)

SpecRing == Init /\ [][NextRing]_vars

(***************************************************************************)
(* SpecFb: the feedback computation.  The same callbacks; whole silent     *)
(* packets, and every value of the DMA counter at each start of frame.     *)
(***************************************************************************)
NextFb ==
    \/ \E m \in Booleans, i \in Booleans : USBD_AUDIO_Init(m, i)
    \/ USBD_AUDIO_DeInit
    \/ \E r \in SetInterfaceReqs, c \in Booleans : USBD_AUDIO_Setup(r, c)
    \/ \E e \in EpNums : USBD_AUDIO_DataIn(e)
    \/ \E n \in NdtrValues, g \in Garbage : USBD_AUDIO_SOF(0, n, g)
    \/ USBD_AUDIO_IsoINIncomplete
    \/ USBD_AUDIO_IsoOutIncomplete
    \/ \E a \in Arrivals(FullPackets), d \in Silence : USBD_AUDIO_DataOut(a[1], a[2], d)

SpecFb == Init /\ [][NextFb]_vars

(***************************************************************************)
(* SpecTx: the feedback transmit gate.  The same callbacks; whole silent   *)
(* packets, the DMA counter at the start of the ring, every frame number.  *)
(***************************************************************************)
NextTx ==
    \/ \E m \in Booleans, i \in Booleans : USBD_AUDIO_Init(m, i)
    \/ USBD_AUDIO_DeInit
    \/ \E r \in SetInterfaceReqs, c \in Booleans : USBD_AUDIO_Setup(r, c)
    \/ \E e \in EpNums : USBD_AUDIO_DataIn(e)
    \/ \E f \in Frames, g \in Garbage : USBD_AUDIO_SOF(f, AUDIO_TOTAL_BUF_SIZE, g)
    \/ USBD_AUDIO_IsoINIncomplete
    \/ USBD_AUDIO_IsoOutIncomplete
    \/ \E a \in Arrivals(FullPackets), d \in Silence : USBD_AUDIO_DataOut(a[1], a[2], d)

SpecTx == Init /\ [][NextTx]_vars

(***************************************************************************)
(* SpecCtl: the control endpoint.  Every callback with every request of    *)
(* ControlReqs and the data stage of SET_CUR; the host streams nothing:    *)
(* OUT packets are empty, the frame is 0 and the DMA counter is at the     *)
(* start of the ring.                                                      *)
(***************************************************************************)
NextCtl ==
    \/ \E m \in Booleans, i \in Booleans : USBD_AUDIO_Init(m, i)
    \/ USBD_AUDIO_DeInit
    \/ \E r \in ControlReqs, c \in Booleans : USBD_AUDIO_Setup(r, c)
    \/ \E d0 \in Silence \cup Sound : USBD_AUDIO_EP0_RxReady(d0)
    \/ \E e \in EpNums : USBD_AUDIO_DataIn(e)
    \/ \E g \in Garbage : USBD_AUDIO_SOF(0, AUDIO_TOTAL_BUF_SIZE, g)
    \/ USBD_AUDIO_IsoINIncomplete
    \/ USBD_AUDIO_IsoOutIncomplete
    \/ \E a \in Arrivals({0}), d \in Silence : USBD_AUDIO_DataOut(a[1], a[2], d)

SpecCtl == Init /\ [][NextCtl]_vars

(***************************************************************************)
(* SpecLive: a session that keeps receiving.  The callbacks of the OUT     *)
(* path (Init, DeInit, Setup, SOF, IsoOutIncomplete, DataOut); DataIn and  *)
(* IsoINIncomplete, which write tx_flag and fnsof only, are left to the    *)
(* other specifications.  Silent OUT packets of one frame, of half a frame *)
(* less than a packet and of AUDIO_OUT_PACKET bytes.  The host's           *)
(* isochronous OUT stream does not stop: a packet of one of these sizes    *)
(* keeps completing on AUDIO_OUT_EP and the core calls DataOut for it.     *)
(***************************************************************************)
LiveSizes == {4, AUDIO_OUT_PACKET - 2, AUDIO_OUT_PACKET}

Feed == \E z \in LiveSizes, d \in Silence : USBD_AUDIO_DataOut(AUDIO_OUT_EP, z, d)

NextLive ==
    \/ \E m \in Booleans, i \in Booleans : USBD_AUDIO_Init(m, i)
    \/ USBD_AUDIO_DeInit
    \/ \E r \in SetInterfaceReqs, c \in Booleans : USBD_AUDIO_Setup(r, c)
    \/ \E g \in Garbage : USBD_AUDIO_SOF(0, AUDIO_TOTAL_BUF_SIZE, g)
    \/ USBD_AUDIO_IsoOutIncomplete
    \/ \E a \in Arrivals(LiveSizes), d \in Silence : USBD_AUDIO_DataOut(a[1], a[2], d)

SpecLive == Init /\ [][NextLive]_vars /\ WF_vars(Feed)

(***************************************************************************)
(* Properties.                                                             *)
(***************************************************************************)

\* The write offset is a multiple of 4 inside the ring, and the last ingest
\* stored nothing at or beyond buffer[TOTAL].
WrInRing ==
    /\ AUDIO_TOTAL_BUF_SIZE % 4 = 0
    /\ wr_ptr % 4 = 0
    /\ wr_ptr >= 0
    /\ wr_ptr < AUDIO_TOTAL_BUF_SIZE
    /\ "ring_oob" \notin ev.bad

\* An accepted DataOut that reports size bytes advances wr_ptr by the whole
\* samples of an accepted size, modulo TOTAL.
WrAdvance ==
    (handle /\ all_ready = 1 /\ ev'.op = "DataOut")
        => \E z \in RxSizes :
               /\ USBD_AUDIO_DataOut(AUDIO_OUT_EP, z, 0)
                  \/ USBD_AUDIO_DataOut(AUDIO_OUT_EP + 1, z, 0)
               /\ wr_ptr' \in {wr_ptr,
                     (wr_ptr + 4 * (PacketSizeOf(z) \div 4)) % AUDIO_TOTAL_BUF_SIZE}
               /\ wr_ptr' = wr_ptr => (PacketSizeOf(z) < 4 \/ ~Called(ev', "PrepareReceive_tmpbuf"))

\* C1: after any sequence of callbacks the write offset is a multiple of 4
\* inside [0, TOTAL), TOTAL is a multiple of 4, and ingestion wraps wr_ptr to
\* 0 when it reaches TOTAL, neither earlier nor later.
C1_WrAligned == []WrInRing /\ [][WrAdvance]_vars

\* An ingest that started playback earlier has now wrapped wr_ptr to 0.
C1_Witness ==
    /\ handle /\ ev.op = "DataOut" /\ Called(ev, "PrepareReceive_tmpbuf")
    /\ is_playing = 1 /\ wr_ptr = 0

\* C2: in every reachable state fb_value lies within AUDIO_FB_DELTA of the
\* nominal value.
C2_FbInRange ==
    /\ fb_value >= fb_nom - AUDIO_FB_DELTA
    /\ fb_value <= fb_nom + AUDIO_FB_DELTA

\* A start of frame found the DMA counter beyond the ring and the limit
\* check cut the value to fb_nom + AUDIO_FB_DELTA.
C2_Witness ==
    /\ handle /\ ev.op = "SOF" /\ rd_enable = 1 /\ all_ready = 1
    /\ rd_ptr > AUDIO_TOTAL_BUF_SIZE
    /\ FbRaw(WritableSize(rd_ptr, wr_ptr)) > fb_nom + AUDIO_FB_DELTA
    /\ fb_value = fb_nom + AUDIO_FB_DELTA

\* The byte the DMA stream reads next, and the bytes from wr_ptr forward to
\* it.  Equal offsets are counted as a ring that is free all round, the
\* reading that allows the producer most.
DmaRd == ReadPtrOf(NDTR) % AUDIO_TOTAL_BUF_SIZE
FreeBytes ==
    IF DmaRd = wr_ptr THEN AUDIO_TOTAL_BUF_SIZE
    ELSE (DmaRd + AUDIO_TOTAL_BUF_SIZE - wr_ptr) % AUDIO_TOTAL_BUF_SIZE

\* C3: once playback has started, a DataOut that ingests n bytes has n no
\* larger than the free region from wr_ptr forward to the DMA read position:
\* the write offset never passes the read position.
C3_WritesFreeRegion ==
    [][(/\ handle /\ start_open /\ is_playing = 1
        /\ NDTR \in 1 .. AUDIO_TOTAL_BUF_SIZE
        /\ ev'.op = "DataOut" /\ wr_ptr' # wr_ptr)
          => (wr_ptr' + AUDIO_TOTAL_BUF_SIZE - wr_ptr) % AUDIO_TOTAL_BUF_SIZE <= FreeBytes]_vars

\* C4: AUDIO_CMD_START is issued only by a DataOut whose ingest takes wr_ptr
\* from below TOTAL/2 to TOTAL/2 or beyond, and never while an earlier START
\* has not been followed by the playback engine's DeInit.
C4_StartOncePerDeInit ==
    [][Called(ev', "AudioCmd_START")
          => /\ ev'.op = "DataOut"
             /\ wr_ptr < AUDIO_TOTAL_BUF_SIZE \div 2
             /\ wr_ptr' >= AUDIO_TOTAL_BUF_SIZE \div 2
             /\ ~start_open]_vars

\* C5: is_playing rises only in a DataOut after whose ingest wr_ptr is at
\* least TOTAL/2, with offset NONE and rd_enable 1 in the same step, and it
\* falls only in an accepted SET_INTERFACE, so it rises at most once in a
\* session.
C5_PlayingOncePerSession ==
    [][/\ (is_playing = 0 /\ is_playing' = 1)
             => /\ ev'.op = "DataOut"
                /\ wr_ptr' >= AUDIO_TOTAL_BUF_SIZE \div 2
                /\ offset = "UNKNOWN" /\ offset' = "NONE"
                /\ rd_enable' = 1
       /\ (is_playing = 1 /\ is_playing' = 0)
             => /\ ev'.op = "Setup_SET_INTERFACE"
                /\ ev'.ret = "OK"]_vars

\* In an alt-1 session a DataOut has just started playback.
C5_Witness ==
    /\ handle /\ alt_setting = 1 /\ all_ready = 1
    /\ ev.op = "DataOut" /\ Called(ev, "AudioCmd_START")
    /\ is_playing = 1 /\ offset = "NONE" /\ rd_enable = 1
    /\ wr_ptr >= AUDIO_TOTAL_BUF_SIZE \div 2

\* A start of frame that finds a handle, rd_enable and all_ready set.
EnabledSOF == handle /\ rd_enable >= 1 /\ all_ready = 1 /\ ev'.op = "SOF"
Submits == Called(ev', "Transmit")
SameParity == (fnsof % 2) = (FNSOF' % 2)

\* C6: at most one feedback IN transfer is in flight.  USBD_LL_Transmit is
\* called only from SOF, once, on AUDIO_IN_EP, when tx_flag is 0 and no
\* transfer is in flight, and tx_flag is 1 afterwards; a transfer in flight
\* has tx_flag at 1; and while a handle exists tx_flag falls back to 0 only
\* in DataIn, IsoINIncomplete or an accepted SET_INTERFACE, a new handle
\* starting with tx_flag at 1.
C6_OneFeedbackInFlight ==
    [][/\ Submits => /\ ev'.op = "SOF"
                     /\ ev'.calls = <<Call("Transmit", AUDIO_IN_EP)>>
                     /\ tx_flag = 0 /\ tx_flag' = 1
                     /\ ~fb_pending /\ fb_pending'
       /\ fb_pending' => tx_flag' = 1
       /\ (handle /\ handle' /\ tx_flag = 1 /\ tx_flag' = 0)
             => \/ ev'.op \in {"DataIn", "IsoINIncomplete"}
                \/ ev'.op = "Setup_SET_INTERFACE" /\ ev'.ret = "OK"
       /\ (~handle /\ handle') => tx_flag' = 1]_vars

\* A start of frame in frame 2 has submitted a feedback packet, which is
\* now in flight with tx_flag at 1.
C6_Witness ==
    /\ handle /\ ev.op = "SOF" /\ Called(ev, "Transmit")
    /\ tx_flag = 1 /\ fb_pending /\ FNSOF = 2

\* C7 as stated: on every enabled SOF that finds tx_flag at 0 a feedback
\* packet is submitted in that same SOF.
C7_SubmitsWheneverIdle ==
    [][(EnabledSOF /\ tx_flag = 0) => Submits]_vars

\* C7, amended: every enabled SOF stores the read offset taken from the DMA
\* counter, the feedback value computed from it and from wr_ptr, and its
\* three bytes; when tx_flag is 0 it submits the packet in that same SOF if
\* the low bit of the frame number equals that of fnsof, and submits nothing
\* and leaves tx_flag at 0 otherwise.
C7_FreshValueParitySubmit ==
    [][EnabledSOF
          => /\ rd_ptr' = (AUDIO_TOTAL_BUF_SIZE - (NDTR' % U16)) % U16
             /\ fb_value' = FbOf(rd_ptr', wr_ptr)
             /\ fb_data' = FbBytes(fb_value')
             /\ (tx_flag = 0 /\ SameParity)
                   => /\ ev'.calls = <<Call("Transmit", AUDIO_IN_EP)>>
                      /\ tx_flag' = 1
             /\ (tx_flag = 0 /\ ~SameParity)
                   => /\ ev'.calls = <<>>
                      /\ tx_flag' = 0]_vars

\* An enabled SOF found tx_flag at 0 in a frame of the other parity and
\* submitted nothing.
C7_Witness ==
    /\ handle /\ rd_enable = 1 /\ all_ready = 1
    /\ ev.op = "SOF" /\ ev.calls = <<>>
    /\ tx_flag = 0 /\ fnsof % 2 # FNSOF % 2
    /\ fb_value = FbOf(rd_ptr, wr_ptr) /\ wr_ptr > 0

\* C8: a feedback packet is submitted only in a frame whose low bit equals
\* that of fnsof; fnsof is 0 until an IsoINIncomplete stores the current
\* frame number in it, which also leaves tx_flag at 0; an enabled SOF that
\* finds tx_flag at 0 in a frame of matching parity submits; and an enabled
\* SOF that follows a SOF which left tx_flag at 0, one frame later, submits,
\* so the submit comes within two SOFs.
C8_ParityGuard ==
    /\ fnsof = 0
    /\ [][/\ Submits => SameParity
          /\ fnsof' # fnsof => ev'.op = "IsoINIncomplete"
          /\ ev'.op = "IsoINIncomplete" => (fnsof' = FNSOF % 16384 /\ tx_flag' = 0)
          /\ (EnabledSOF /\ tx_flag = 0 /\ SameParity) => Submits
          /\ (EnabledSOF /\ tx_flag = 0 /\ ev.op = "SOF" /\ FNSOF' = (FNSOF + 1) % 16384)
                => Submits]_vars

\* After an IsoINIncomplete in an odd frame, a packet has been submitted in
\* an odd frame.
C8_Witness ==
    /\ handle /\ ev.op = "SOF" /\ Called(ev, "Transmit")
    /\ fnsof = 1 /\ FNSOF = 1 /\ tx_flag = 1

\* The step is SET_INTERFACE request r, accepted: a handle exists, the device
\* is configured and (uint8_t)wValue is at most USBD_MAX_NUM_INTERFACES.
Accepted(r) ==
    /\ handle
    /\ r.wValue % 256 <= USBD_MAX_NUM_INTERFACES
    /\ USBD_AUDIO_Setup(r, TRUE)

\* What SET_INTERFACE resets for either alternate setting.
StreamReset ==
    /\ wr_ptr' = 0 /\ rd_ptr' = 0
    /\ offset' = "UNKNOWN"
    /\ rd_enable' = 0
    /\ is_playing' = 0
    /\ Called(ev', "FlushEP")
    /\ \A e \in {AUDIO_IN_EP, AUDIO_OUT_EP} : \E i \in DOMAIN ev'.calls : ev'.calls[i] = Call("FlushEP", e)
    /\ ev'.ret = "OK"

RingZero == \A i \in RingIdx : buffer'[i] = 0

\* C9: an accepted SET_INTERFACE with alt 0, in any reachable state, ends
\* with the ring all zero, wr_ptr = rd_ptr = 0, offset UNKNOWN, rd_enable 0,
\* is_playing 0, all_ready 0, tx_flag 1, alt_setting 0, both isochronous
\* endpoints flushed, the engine's DeInit called once and its Init not.
C9_AltZeroReset ==
    [][\A r \in SetInterfaceReqs :
          (Accepted(r) /\ r.wValue % 256 = 0)
             => /\ RingZero
                /\ StreamReset
                /\ all_ready' = 0 /\ tx_flag' = 1 /\ alt_setting' = 0
                /\ Count(ev', "Itf_DeInit") = 1
                /\ Count(ev', "Itf_Init") = 0]_vars

\* SET_INTERFACE alt 0 has been accepted in a session that had ingested a
\* packet of sound and started playback.
C9_Witness ==
    /\ handle /\ ev.op = "Setup_SET_INTERFACE" /\ ev.ret = "OK"
    /\ Called(ev, "Itf_DeInit")
    /\ alt_setting = 0 /\ all_ready = 0 /\ tx_flag = 1
    /\ buffer = ZeroRing /\ tmpbuf # ZeroTmp /\ rx.tgt = "tmpbuf"

\* C10: an accepted SET_INTERFACE with alt 1, in any reachable state, ends
\* with the ring all zero, wr_ptr = rd_ptr = 0, offset UNKNOWN, rd_enable 0,
\* is_playing 0, both isochronous endpoints flushed, the engine's Init
\* called once and its DeInit not, tx_flag 0 and all_ready 1.
C10_AltOneReset ==
    [][\A r \in SetInterfaceReqs :
          (Accepted(r) /\ r.wValue % 256 = 1)
             => /\ RingZero
                /\ StreamReset
                /\ all_ready' = 1 /\ tx_flag' = 0 /\ alt_setting' = 1
                /\ Count(ev', "Itf_Init") = 1
                /\ Count(ev', "Itf_DeInit") = 0]_vars

\* The last callback was an accepted SET_INTERFACE with alt 0, and the step
\* is one of the callbacks that may follow it inside the interval.
AfterAltZero ==
    /\ handle
    /\ ev.op = "Setup_SET_INTERFACE" /\ ev.ret = "OK" /\ Called(ev, "Itf_DeInit")
    /\ alt_setting = 0
StreamingCallback ==
    ev'.op \in {"DataOut", "SOF", "DataIn", "IsoINIncomplete", "IsoOutIncomplete"}

\* C11: between an accepted SET_INTERFACE(alt=0) and the accepted
\* SET_INTERFACE(alt=1) that follows it every ring byte is zero, whatever
\* DataOut, SOF, DataIn, IsoINIncomplete or IsoOutIncomplete does in
\* between, and the new session begins with wr_ptr = rd_ptr = 0.  Stated for
\* the callback that directly follows the alt 0 request and for the alt 1
\* request itself.
C11_RingZeroBetweenSessions ==
    [][/\ (AfterAltZero /\ StreamingCallback) => RingZero
       /\ \A r \in SetInterfaceReqs :
             (AfterAltZero /\ Accepted(r) /\ r.wValue % 256 = 1)
                => RingZero /\ wr_ptr' = 0 /\ rd_ptr' = 0]_vars

\* The control requests the class refuses.
Malformed(r, configured) ==
    \/ r.type \notin {"CLASS", "STANDARD"}
    \/ r.type = "CLASS" /\ r.bRequest \notin {"GET_CUR", "SET_CUR"}
    \/ /\ r.type = "STANDARD"
       /\ \/ r.bRequest = "SET_INTERFACE"
             /\ (~configured \/ r.wValue % 256 > USBD_MAX_NUM_INTERFACES)
          \/ r.bRequest \in {"GET_STATUS", "GET_INTERFACE"} /\ ~configured
          \/ r.bRequest \notin {"GET_STATUS", "GET_DESCRIPTOR", "GET_INTERFACE",
                                "SET_INTERFACE", "CLEAR_FEATURE"}

C13_OversizeIgnored ==
    [][\A z \in FrameSizes, d \in Sound :
          (handle /\ all_ready = 1 /\ z > AUDIO_OUT_PACKET
              /\ USBD_AUDIO_DataOut(AUDIO_OUT_EP, z, d))
             => /\ wr_ptr' = wr_ptr
                /\ \A i \in RingIdx :
                      buffer'[i] = IF /\ rx.tgt = "buffer"
                                      /\ i >= rx.off /\ i < rx.off + AUDIO_OUT_PACKET
                                   THEN d ELSE buffer[i]
                /\ (rx.tgt = "tmpbuf" => buffer' = buffer)
                /\ ev'.ret = "OK"
                /\ ev'.calls = <<Call("PrepareReceive_tmpbuf", 0)>>
                /\ rx' = [tgt |-> "tmpbuf", off |-> 0]
                /\ UNCHANGED <<offset, rd_enable, is_playing, rd_ptr>>]_vars

\* An oversize packet of sound has been received at tmpbuf after one silent
\* packet was ingested: tmpbuf holds the sound, the ring holds none of it and
\* wr_ptr still stands after the first packet.
C13_Witness ==
    /\ handle /\ all_ready = 1
    /\ ev.op = "DataOut" /\ ev.ret = "OK"
    /\ ev.calls = <<Call("PrepareReceive_tmpbuf", 0)>>
    /\ rx = [tgt |-> "tmpbuf", off |-> 0]
    /\ wr_ptr = AUDIO_OUT_PACKET
    /\ \A i \in TmpIdx : tmpbuf[i] = 1
    /\ \A i \in RingIdx : buffer[i] = 0

\* C14: the playback engine's MuteCtl is called only by EP0_RxReady, only
\* when the pending command is SET_CUR and the recorded unit is
\* AUDIO_OUT_STREAMING_CTRL, once, with control.data[0] as argument, and
\* cmd = 0 and len = 0 afterwards; an EP0_RxReady with no SET_CUR pending
\* calls nothing; and a command becomes pending only through a SET_CUR
\* request with a data stage, so each such request leads to at most one
\* MuteCtl.
C14_MuteOnlyOnSetCur ==
    [][/\ Called(ev', "MuteCtl")
             => /\ ev'.op = "EP0_RxReady"
                /\ handle
                /\ control.cmd = AUDIO_REQ_SET_CUR
                /\ control.unit = AUDIO_OUT_STREAMING_CTRL
                /\ ev'.calls = <<Call("MuteCtl", control'.data0)>>
                /\ control'.cmd = 0 /\ control'.len = 0
       /\ (ev'.op = "EP0_RxReady" /\ control.cmd # AUDIO_REQ_SET_CUR)
             => ev'.calls = <<>> /\ control'.cmd = control.cmd
       /\ (control.cmd # AUDIO_REQ_SET_CUR /\ control'.cmd = AUDIO_REQ_SET_CUR)
             => /\ ev'.op = "Setup_SET_CUR"
                /\ Called(ev', "CtlPrepareRx")
                /\ control'.unit \in {AUDIO_OUT_STREAMING_CTRL, AUDIO_OUT_STREAMING_CTRL + 1}]_vars

\* EP0_RxReady has just passed the received byte 1 to MuteCtl and cleared the
\* pending command.
C14_Witness ==
    /\ handle
    /\ ev.op = "EP0_RxReady" /\ ev.calls = <<Call("MuteCtl", 1)>>
    /\ control.cmd = 0 /\ control.len = 0 /\ control.data0 = 1
    /\ control.unit = AUDIO_OUT_STREAMING_CTRL

\* C15: the three outcomes of Init.  Without a block from the allocator it
\* returns EMEM, installs no handle and calls nothing.  With a block it
\* installs the handle, opens the OUT and the IN endpoint, flushes IN, sets
\* tx_flag = 1, alt_setting = 0, wr_ptr = rd_ptr = 0, offset = UNKNOWN,
\* rd_enable = 0 and calls the playback engine's Init once; if that fails
\* it returns FAIL and arms no receive, otherwise it arms the first OUT
\* receive at the start of the ring and returns OK.
C15_InitOutcomes ==
    [][\A mallok \in Booleans, initok \in Booleans :
          USBD_AUDIO_Init(mallok, initok)
             => /\ ~mallok
                     => /\ ev'.ret = "EMEM"
                        /\ ~handle'
                        /\ ev'.calls = <<>>
                        /\ rx' = rx
                /\ mallok
                     => /\ handle'
                        /\ Len(ev'.calls) >= 4
                        /\ ev'.calls[1] = Call("OpenEP", AUDIO_OUT_EP)
                        /\ ev'.calls[2] = Call("OpenEP", AUDIO_IN_EP)
                        /\ ev'.calls[3] = Call("FlushEP", AUDIO_IN_EP)
                        /\ ev'.calls[4] = Call("Itf_Init", USBD_AUDIO_FREQ)
                        /\ Count(ev', "Itf_Init") = 1
                        /\ tx_flag' = 1 /\ alt_setting' = 0
                        /\ wr_ptr' = 0 /\ rd_ptr' = 0
                        /\ offset' = "UNKNOWN" /\ rd_enable' = 0
                /\ (mallok /\ ~initok)
                     => /\ ev'.ret = "FAIL"
                        /\ Len(ev'.calls) = 4
                        /\ rx' = rx
                /\ (mallok /\ initok)
                     => /\ ev'.ret = "OK"
                        /\ Len(ev'.calls) = 5
                        /\ ev'.calls[5] = Call("PrepareReceive_buffer", 0)
                        /\ rx' = [tgt |-> "buffer", off |-> 0]]_vars

\* An Init whose playback-engine Init failed: the handle is installed, the
\* endpoints are open, no receive is armed.
C15_Witness ==
    /\ ev.op = "Init" /\ ev.ret = "FAIL"
    /\ handle /\ tx_flag = 1 /\ wr_ptr = 0 /\ rd_enable = 0
    /\ Called(ev, "Itf_Init") /\ ~Called(ev, "PrepareReceive_buffer")
    /\ rx.tgt = "none"

\* C16: DeInit flushes the OUT and the IN endpoint, closes both, sets
\* tx_flag = 0 and leaves no handle; when a handle existed it calls the
\* playback engine's DeInit exactly once and frees the handle; when none
\* existed (a second DeInit with no Init in between) it calls neither the
\* engine's DeInit nor free.
C16_DeInitReleasesOnce ==
    [][ev'.op = "DeInit"
          => /\ Len(ev'.calls) >= 4
             /\ ev'.calls[1] = Call("FlushEP", AUDIO_OUT_EP)
             /\ ev'.calls[2] = Call("FlushEP", AUDIO_IN_EP)
             /\ ev'.calls[3] = Call("CloseEP", AUDIO_OUT_EP)
             /\ ev'.calls[4] = Call("CloseEP", AUDIO_IN_EP)
             /\ tx_flag' = 0
             /\ ~handle'
             /\ handle
                  => /\ Len(ev'.calls) = 6
                     /\ ev'.calls[5] = Call("Itf_DeInit", 0)
                     /\ ev'.calls[6] = Call("free", 0)
                     /\ Count(ev', "Itf_DeInit") = 1 /\ Count(ev', "free") = 1
             /\ ~handle
                  => /\ Len(ev'.calls) = 4
                     /\ ~Called(ev', "Itf_DeInit") /\ ~Called(ev', "free")]_vars

\* A DeInit that found no handle, after a session that had started playing:
\* the session's handle was released by an earlier DeInit, and this one
\* released nothing.
C16_Witness ==
    /\ ev.op = "DeInit" /\ ~handle /\ tx_flag = 0
    /\ is_playing = 1
    /\ Len(ev.calls) = 4 /\ ~Called(ev, "Itf_DeInit") /\ ~Called(ev, "free")

\* The integer reference of the feedback value for W writable samples:
\* floor(fb_nom * (2^22 + 256 * dev) / 2^22) with dev = W - TOTAL/12, which
\* is fb_nom + floor(fb_nom * dev / 2^14); fb_nom is split at bit 14 so that
\* the products stay small.
FbReference(W) ==
    LET dev == W - AUDIO_TOTAL_BUF_SIZE \div 12
        hi  == fb_nom \div 16384
        lo  == fb_nom % 16384
        raw == fb_nom + hi * dev + (lo * dev) \div 16384
    IN IF raw > fb_nom + Pow2(22) THEN fb_nom + Pow2(22)
       ELSE IF raw < fb_nom - Pow2(22) THEN fb_nom - Pow2(22)
       ELSE raw

\* C17: for every write offset and every read offset rd = TOTAL - NDTR
\* inside the ring, an enabled SOF leaves fb_value equal to the exact integer
\* reference clamp(floor(fb_nom * (2^22 + 256 * (W - TOTAL/12)) / 2^22),
\* fb_nom - DELTA, fb_nom + DELTA) with W = ((rd - wr) mod TOTAL) div 4, and
\* fb_data equal to bytes 1, 2 and 3 of fb_value; with W = TOTAL/12 the value
\* is fb_nom and, at 48 kHz, the packet is {0x00, 0x00, 0x0C}.
C17_FeedbackExact ==
    [][(EnabledSOF /\ NDTR' >= 1 /\ NDTR' <= AUDIO_TOTAL_BUF_SIZE)
          => LET rd == AUDIO_TOTAL_BUF_SIZE - NDTR'
                 W  == ((rd - wr_ptr) % AUDIO_TOTAL_BUF_SIZE) \div 4
             IN /\ wr_ptr % 4 = 0 /\ wr_ptr >= 0 /\ wr_ptr < AUDIO_TOTAL_BUF_SIZE
                /\ rd_ptr' = rd
                /\ fb_value' = FbReference(W)
                /\ fb_data' = << (fb_value' \div 256) % 256,
                                 (fb_value' \div 65536) % 256,
                                 (fb_value' \div 16777216) % 256 >>
                /\ W = AUDIO_TOTAL_BUF_SIZE \div 12
                     => /\ fb_value' = fb_nom
                        /\ USBD_AUDIO_FREQ = 48000 => fb_data' = <<0, 0, 12>>]_vars

\* A start of frame found exactly TOTAL/12 writable samples, with the write
\* offset ahead of the read offset: the value is the nominal one and the
\* packet is {0x00, 0x00, 0x0C}.
C17_Witness ==
    /\ handle /\ ev.op = "SOF" /\ rd_enable = 1 /\ all_ready = 1
    /\ rd_ptr < wr_ptr
    /\ (rd_ptr + AUDIO_TOTAL_BUF_SIZE - wr_ptr) \div 4 = AUDIO_TOTAL_BUF_SIZE \div 12
    /\ fb_value = fb_nom
    /\ fb_data = <<0, 0, 12>>

\* C18 as claimed: tx_flag changes only from 1 to 0 in DataIn and only from
\* 0 to 1 in the SOF feedback submit and in IsoINIncomplete.
C18_TxFlagOnlyDataInSof ==
    [][tx_flag' # tx_flag
          => \/ tx_flag = 1 /\ tx_flag' = 0 /\ ev'.op = "DataIn"
             \/ tx_flag = 0 /\ tx_flag' = 1 /\ ev'.op \in {"SOF", "IsoINIncomplete"}]_vars

\* C18, amended: tx_flag changes from 1 to 0 only in DataIn on the feedback
\* endpoint, in IsoINIncomplete, in an accepted SET_INTERFACE with alt other
\* than 0 and in DeInit; it changes from 0 to 1 only in the SOF that submits
\* a feedback packet, in an accepted SET_INTERFACE with alt 0 and in an Init
\* that obtained a handle; no other handler changes it, and IsoINIncomplete
\* never raises it.
C18_TxFlagTransitions ==
    [][/\ tx_flag' # tx_flag
             => \/ /\ tx_flag = 1 /\ tx_flag' = 0
                   /\ \/ ev'.op \in {"DataIn", "IsoINIncomplete", "DeInit"}
                      \/ /\ ev'.op = "Setup_SET_INTERFACE" /\ ev'.ret = "OK"
                         /\ alt_setting' # 0
                \/ /\ tx_flag = 0 /\ tx_flag' = 1
                   /\ \/ ev'.op = "SOF" /\ Count(ev', "Transmit") = 1
                      \/ /\ ev'.op = "Setup_SET_INTERFACE" /\ ev'.ret = "OK"
                         /\ alt_setting' = 0
                      \/ ev'.op = "Init" /\ ev'.ret # "EMEM"
       /\ \A e \in EpNums :
             (USBD_AUDIO_DataIn(e) /\ e # AUDIO_IN_EP % 16) => tx_flag' = tx_flag
       /\ ev'.op = "IsoINIncomplete" => tx_flag' = 0]_vars

\* IsoINIncomplete has just taken tx_flag from 1 to 0 and flushed the IN
\* endpoint, in a session that is playing.
C18_Witness ==
    /\ handle /\ rd_enable = 1 /\ all_ready = 1
    /\ ev.op = "IsoINIncomplete" /\ ev.calls = <<Call("FlushEP", AUDIO_IN_EP)>>
    /\ tx_flag = 0

\* C19: while a handle exists and all_ready = 0, DataOut and SOF change none
\* of wr_ptr, rd_ptr, offset, rd_enable, is_playing, tx_flag, fb_value and
\* fb_data, write no ring byte (after a DataOut the ring is as the completed
\* receive left it, after a SOF it is unchanged) and make no call; SOF is the
\* same no-op whenever rd_enable = 0, so no feedback packet is submitted
\* before playback has started.
C19_Gated ==
    [][/\ \A a \in Arrivals(FrameSizes), d \in Sound :
             (handle /\ all_ready = 0 /\ USBD_AUDIO_DataOut(a[1], a[2], d))
                => /\ UNCHANGED <<wr_ptr, rd_ptr, offset, rd_enable, is_playing,
                                  tx_flag, fb_value, fb_data>>
                   /\ ev'.calls = <<>>
                   /\ \A i \in RingIdx :
                         buffer'[i] = IF /\ a[1] = AUDIO_OUT_EP /\ rx.tgt = "buffer"
                                         /\ i >= rx.off
                                         /\ i < rx.off + Min(a[2], AUDIO_OUT_PACKET)
                                      THEN d ELSE buffer[i]
                   /\ (rx.tgt # "buffer" => buffer' = buffer)
       /\ (handle /\ ev'.op = "SOF" /\ (all_ready = 0 \/ rd_enable = 0))
             => /\ UNCHANGED <<wr_ptr, rd_ptr, offset, rd_enable, is_playing,
                               tx_flag, fb_value, fb_data, buffer>>
                /\ ev'.calls = <<>>
       /\ (handle /\ Called(ev', "Transmit")) => rd_enable >= 1 /\ is_playing = 1]_vars

\* A packet of sound arrived while all_ready = 0, after a session had armed
\* the receive at tmpbuf and SET_INTERFACE(alt = 0) had ended it: the packet
\* lies in tmpbuf, the ring is still zero, wr_ptr is 0 and nothing was
\* called.
C19_Witness ==
    /\ handle /\ all_ready = 0 /\ alt_setting = 0
    /\ ev.op = "DataOut" /\ ev.ret = "OK" /\ ev.calls = <<>>
    /\ wr_ptr = 0 /\ rd_enable = 0 /\ is_playing = 0
    /\ \A i \in TmpIdx : tmpbuf[i] = 1
    /\ \A i \in RingIdx : buffer[i] = 0
    /\ rx.tgt = "none"

\* C20: while a handle exists, IsoOutIncomplete flushes the OUT endpoint and
\* then re-arms the receive at buffer[wr_ptr], and does nothing else: wr_ptr,
\* rd_ptr, offset, rd_enable, is_playing, all_ready, tx_flag, fnsof, fb_value,
\* fb_data and every ring byte are as before the delivery fault.
C20_IsoOutRearms ==
    [][(handle /\ ev'.op = "IsoOutIncomplete")
          => /\ ev'.calls = <<Call("FlushEP", AUDIO_OUT_EP),
                              Call("PrepareReceive_buffer", wr_ptr)>>
             /\ rx' = [tgt |-> "buffer", off |-> wr_ptr]
             /\ ev'.ret = "OK"
             /\ UNCHANGED <<wr_ptr, rd_ptr, offset, rd_enable, is_playing, all_ready,
                            tx_flag, fnsof, fb_value, fb_data, buffer, alt_setting>>]_vars

\* A delivery fault in a playing session with sound in the ring: the receive
\* is armed at the write offset, which is not the start of the ring.
C20_Witness ==
    /\ handle /\ is_playing = 1 /\ all_ready = 1
    /\ ev.op = "IsoOutIncomplete"
    /\ wr_ptr > 0
    /\ rx = [tgt |-> "buffer", off |-> wr_ptr]
    /\ \E i \in RingIdx : buffer[i] # 0

\* C21: once a SET_INTERFACE(alt=0) has been accepted (all_ready = 0, the
\* handle still there), an IsoINIncomplete or IsoOutIncomplete raised by the
\* flushed transfers is a no-op: tx_flag, fnsof, the pointers and the ring
\* stay as they are, the armed receive stays as it is, and no FlushEP,
\* PrepareReceive or Transmit is issued.
C21_IncompleteNoOp ==
    [][(AfterAltZero /\ all_ready = 0
        /\ ev'.op \in {"IsoINIncomplete", "IsoOutIncomplete"})
       => /\ ev'.calls = <<>>
          /\ UNCHANGED <<tx_flag, fnsof, wr_ptr, rd_ptr, buffer, rx>>]_vars

\* C22: while a handle exists, all_ready = 1 only in a non-zero alternate
\* setting and is_playing = 1 only with the read side enabled and the offset
\* state NONE; in particular a successful Init leaves all_ready = 0 and
\* is_playing = 0 whatever session came before it.
C22_FreshAfterInit ==
    handle =>
        /\ (all_ready = 1 => alt_setting # 0)
        /\ (is_playing = 1 => rd_enable = 1 /\ offset = "NONE")
        /\ (ev.op = "Init" /\ ev.ret = "OK" => all_ready = 0 /\ is_playing = 0)

\* C23: when a full OUT packet completes on an armed receive and DataOut
\* ingests it (handle, all_ready = 1), the receive had been armed at the
\* staging buffer and the bytes appended to the ring from the old wr_ptr on
\* are the bytes of that packet.
C23_AppendsReceivedPacket ==
    [][\A d \in Sound :
          (/\ handle /\ all_ready = 1 /\ rx.tgt # "none"
           /\ USBD_AUDIO_DataOut(AUDIO_OUT_EP, AUDIO_OUT_PACKET, d))
          => /\ rx.tgt = "tmpbuf"
             /\ \A k \in 0 .. AUDIO_OUT_PACKET - 1 :
                    buffer'[(wr_ptr + k) % AUDIO_TOTAL_BUF_SIZE] = d]_vars

\* C24: while a handle exists, a receive armed in the ring at buffer[off]
\* leaves room for the AUDIO_OUT_PACKET bytes it was armed for:
\* off + AUDIO_OUT_PACKET <= AUDIO_TOTAL_BUF_SIZE.
C24_ArmedInsideRing ==
    (handle /\ rx.tgt = "buffer") => rx.off + AUDIO_OUT_PACKET <= AUDIO_TOTAL_BUF_SIZE

\* C25: for GET_CUR and SET_CUR the EP0 data stage stays inside control.data:
\* the length handed to CtlSendData or CtlPrepareRx is at most
\* ControlDataSize, and after a SET_CUR with a data stage control.len is the
\* request's wLength.
C25_DataStageInsideScratch ==
    [][\A r \in ControlReqs :
          (/\ handle /\ r.type = "CLASS" /\ r.bRequest \in {"GET_CUR", "SET_CUR"}
           /\ USBD_AUDIO_Setup(r, TRUE))
          => /\ \A i \in DOMAIN ev'.calls : ev'.calls[i].a <= ControlDataSize
             /\ ev'.bad = {}
             /\ (r.bRequest = "SET_CUR" /\ r.wLength # 0 => control'.len = r.wLength)
             /\ (r.bRequest = "GET_CUR" => control'.data0 = 0)]_vars

\* C28: a SET_INTERFACE whose wIndex names interface 0 (AudioControl) leaves
\* alt_setting, all_ready, is_playing, tx_flag, wr_ptr, rd_ptr, offset,
\* rd_enable and the ring unchanged and calls neither Init nor DeInit of the
\* playback engine.
C28_OnlyStreamingInterface ==
    [][\A r \in ControlReqs :
          (/\ handle /\ r.bRequest = "SET_INTERFACE" /\ r.wIndex = 0
           /\ USBD_AUDIO_Setup(r, TRUE))
          => /\ UNCHANGED <<alt_setting, all_ready, is_playing, tx_flag, wr_ptr, rd_ptr,
                            offset, rd_enable, buffer>>
             /\ ~Called(ev', "Itf_Init")
             /\ ~Called(ev', "Itf_DeInit")]_vars

\* C27: with no handle, a class callback (Setup, EP0_RxReady, DataIn,
\* DataOut, SOF, IsoINIncomplete, IsoOutIncomplete) goes through no null
\* handle and arms no receive.
C27_NoHandleNoAccess ==
    [][(~handle /\ ev'.op \notin {"Init", "DeInit"})
       => /\ "null" \notin ev'.bad
          /\ \A i \in DOMAIN ev'.calls :
                 ev'.calls[i].f \notin {"PrepareReceive_buffer", "PrepareReceive_tmpbuf",
                                        "PrepareReceive_wild"}]_vars

\* An alt-1 session: a handle and the state an accepted SET_INTERFACE with
\* alt # 0 leaves; it ends with the next accepted SET_INTERFACE or DeInit.
InSession == handle /\ alt_setting # 0 /\ all_ready = 1
SessionEnded ==
    \/ ev.op = "DeInit"
    \/ ev.op = "Setup_SET_INTERFACE" /\ ev.ret = "OK"
PlaybackStarted == is_playing = 1 /\ rd_enable = 1 /\ start_open

\* C26: in an alt-1 session that keeps receiving OUT packets of 4 to
\* AUDIO_OUT_PACKET bytes, playback starts (is_playing = 1, AUDIO_CMD_START
\* issued) unless a SET_INTERFACE or DeInit ends the session first; and until
\* it starts wr_ptr stays below the half-full mark, so no packet carries it
\* across [TOTAL/2, TOTAL) unnoticed.
C26_PlaybackEventuallyStarts ==
    /\ [](InSession /\ is_playing = 0 => wr_ptr < AUDIO_TOTAL_BUF_SIZE \div 2)
    /\ (InSession /\ is_playing = 0) ~> (PlaybackStarted \/ SessionEnded)
C26_Witness ==
    /\ InSession /\ PlaybackStarted
    /\ ev.op = "DataOut" /\ Called(ev, "AudioCmd_START")
    /\ wr_ptr >= AUDIO_TOTAL_BUF_SIZE \div 2

====
